---- MODULE Spec2Model ----
(***************************************************************************)
(* StreakStats.calculate_streaks / get_stats of src/streak_stats.py.       *)
(*                                                                         *)
(* A Python value is modelled as a record of one field, named after its     *)
(* type and holding its content ([int |-> 3], [str |-> ...]), so that a    *)
(* missing key (KeyError), a wrong-typed operand (TypeError) and an        *)
(* unparseable date (ValueError) are outcomes the model can produce.       *)
(* A "YYYY-MM-DD" string is modelled by its three zero-padded numeric      *)
(* fields <<Y, M, D>>: the order of such strings is the lexicographic      *)
(* order of the fields. Any other string is a sequence of naturals whose   *)
(* length is not 3; the empty string is << >>. A date object is its        *)
(* proleptic Gregorian ordinal.                                            *)
(***************************************************************************)
EXTENDS Integers, Sequences, FiniteSets, TLC

VARIABLES contribution_data, today, pc, stats

vars == <<contribution_data, today, pc, stats>>

(* Bounds of the input space *)
NumDates == 4
MaxCount == 2

(***************************************************************************)
(* Python values                                                           *)
(***************************************************************************)
PyInt(n) == [int |-> n]
\* a float is modelled by twice its value (PyFloat(3) is 1.5)
PyFloat(h) == [float |-> h]
PyStr(s) == [str |-> s]
PyNone == [NoneType |-> 0]
PyList(s) == [list |-> s]
PyDict(f) == [dict |-> f]
PyDate(o) == [datetime_date |-> o]

TypeOf(x) == CHOOSE t \in DOMAIN x : TRUE
Val(x) == x[TypeOf(x)]

EmptyStr == PyStr(<< >>)
EmptyDict == PyDict([k \in {} |-> PyNone])

\* obj[key] succeeds only on a dict holding the key (KeyError / TypeError otherwise)
CanGetItem(obj, key) == TypeOf(obj) = "dict" /\ key \in DOMAIN Val(obj)
GetItem(obj, key) == Val(obj)[key]

\* "for x in obj" succeeds on list, dict (its keys) and str (its characters)
CanIterate(obj) == TypeOf(obj) \in {"list", "dict", "str"}
Elements(obj) ==
    IF TypeOf(obj) = "list" THEN Val(obj)
    ELSE IF TypeOf(obj) = "str" THEN [i \in 1..Len(Val(obj)) |-> PyStr(<<Val(obj)[i]>>)]
    ELSE [i \in 1..Cardinality(DOMAIN Val(obj)) |-> PyStr(<<i>>)]

\* "x > 0" succeeds on numbers only (TypeError for str, None, list, dict)
CanCompareZero(x) == TypeOf(x) \in {"int", "float"}
Positive(x) == Val(x) > 0

\* "x or default"
OrElse(x, default) == IF x = PyNone \/ x = EmptyStr THEN default ELSE x

(***************************************************************************)
(* datetime: strptime(s, "%Y-%m-%d").date(), date comparison, timedelta    *)
(***************************************************************************)
IsLeap(y) == (y % 4 = 0 /\ y % 100 # 0) \/ y % 400 = 0

DaysInMonth(y, m) ==
    IF m = 2 THEN (IF IsLeap(y) THEN 29 ELSE 28)
    ELSE IF m \in {4, 6, 9, 11} THEN 30 ELSE 31

RECURSIVE DaysBeforeMonth(_, _)
DaysBeforeMonth(y, m) ==
    IF m <= 1 THEN 0 ELSE DaysBeforeMonth(y, m - 1) + DaysInMonth(y, m - 1)

DaysBeforeYear(y) ==
    LET p == y - 1 IN p * 365 + (p \div 4) - (p \div 100) + (p \div 400)

ToOrdinal(ymd) == DaysBeforeYear(ymd[1]) + DaysBeforeMonth(ymd[1], ymd[2]) + ymd[3]

\* strptime raises TypeError on a non-string and ValueError on a string that
\* is no calendar date
Parses(s) ==
    /\ TypeOf(s) = "str"
    /\ Len(Val(s)) = 3
    /\ Val(s)[1] \in 1..9999
    /\ Val(s)[2] \in 1..12
    /\ Val(s)[3] \in 1..DaysInMonth(Val(s)[1], Val(s)[2])

strptime(s) == ToOrdinal(Val(s))

(***************************************************************************)
(* calculate_streaks, lines 79-89: lookup, flatten, sort                   *)
(***************************************************************************)
Raised == [exc |-> TRUE, ret |-> PyNone]
Returned(v) == [exc |-> FALSE, ret |-> v]

CalendarPath == <<"data", "user", "contributionsCollection", "contributionCalendar">>

RECURSIVE Subscript(_, _)
Subscript(obj, keys) ==
    IF keys = << >> THEN Returned(obj)
    ELSE IF ~CanGetItem(obj, Head(keys)) THEN Raised
    ELSE Subscript(GetItem(obj, Head(keys)), Tail(keys))

RECURSIVE SumCounts(_)
SumCounts(days) ==
    IF days = << >> THEN 0
    ELSE Val(GetItem(Head(days), "contributionCount")) + SumCounts(Tail(days))

\* a plausible slip: the total recomputed from the weeks instead of read
RECURSIVE SumWeeks(_)
SumWeeks(weeks) ==
    IF weeks = << >> THEN 0
    ELSE SumCounts(Val(GetItem(Head(weeks), "contributionDays"))) + SumWeeks(Tail(weeks))

total_recomputed(calendar) == PyInt(SumWeeks(Val(GetItem(calendar, "weeks"))))

\* line 80
total_contributions(calendar) == GetItem(calendar, "totalContributions")

\* lines 84-86
RECURSIVE Flatten(_, _)
Flatten(weeks, all_days) ==
    IF weeks = << >> THEN Returned(all_days)
    ELSE IF ~CanGetItem(Head(weeks), "contributionDays") THEN Raised
    ELSE LET days == GetItem(Head(weeks), "contributionDays")
         IN  IF ~CanIterate(days) THEN Raised
             ELSE Flatten(Tail(weeks), all_days \o Elements(days))

RECURSIVE LexLess(_, _)
LexLess(a, b) ==
    IF b = << >> THEN FALSE
    ELSE IF a = << >> THEN TRUE
    ELSE IF Head(a) # Head(b) THEN Head(a) < Head(b)
    ELSE LexLess(Tail(a), Tail(b))

IsNumber(x) == TypeOf(x) \in {"int", "float"}
Twice(x) == IF TypeOf(x) = "int" THEN 2 * Val(x) ELSE Val(x)

\* "a < b" on two sort keys
CanCompare(a, b) ==
    \/ TypeOf(a) = "str" /\ TypeOf(b) = "str"
    \/ IsNumber(a) /\ IsNumber(b)
KeyLess(a, b) ==
    IF TypeOf(a) = "str" THEN LexLess(Val(a), Val(b)) ELSE Twice(a) < Twice(b)

\* the sort evaluates x["date"] for every element and then compares keys
SortRaises(all_days) ==
    \/ \E i \in 1..Len(all_days) : ~CanGetItem(all_days[i], "date")
    \/ \E i, j \in 1..Len(all_days) :
          i # j /\ ~CanCompare(GetItem(all_days[i], "date"), GetItem(all_days[j], "date"))

\* stable insertion: after every element whose key is not greater
RECURSIVE InsertByDate(_, _)
InsertByDate(sorted, day) ==
    IF sorted = << >> THEN <<day>>
    ELSE IF KeyLess(GetItem(day, "date"), GetItem(Head(sorted), "date"))
         THEN <<day>> \o sorted
         ELSE <<Head(sorted)>> \o InsertByDate(Tail(sorted), day)

RECURSIVE SortFrom(_, _)
SortFrom(sorted, rest) ==
    IF rest = << >> THEN sorted
    ELSE SortFrom(InsertByDate(sorted, Head(rest)), Tail(rest))

\* a plausible slip: the days used in delivery order
unsorted(all_days) == all_days

\* line 89
sort_by_date(all_days) == SortFrom(<< >>, all_days)

(***************************************************************************)
(* calculate_streaks, lines 91-121: the current streak, scanned backwards  *)
(***************************************************************************)
CurrentInit ==
    [current_streak |-> 0, current_streak_start |-> PyNone,
     current_streak_end |-> PyNone, stop |-> FALSE, exc |-> FALSE]

\* plausible slips in the window test of line 103
window_of_three(day_date, now) == day_date <= now /\ now - day_date <= 2
window_open_ended(day_date, now) == now - day_date <= 1

\* line 103: the day is today or yesterday
in_anchor_window(day_date, now) == day_date <= now /\ now - day_date <= 1

\* a plausible slip: the end date taken only once a streak is running
anchor_day_end_late(st, date, count) ==
    IF Positive(count)
    THEN [st EXCEPT !.current_streak = @ + 1,
                    !.current_streak_end = IF st.current_streak > 0 THEN date ELSE @,
                    !.current_streak_start = date]
    ELSE IF st.current_streak > 0 THEN [st EXCEPT !.stop = TRUE]
    ELSE st

\* lines 104-111
anchor_day(st, date, count) ==
    IF Positive(count)
    THEN [st EXCEPT !.current_streak = @ + 1,
                    !.current_streak_end = IF st.current_streak = 0 THEN date ELSE @,
                    !.current_streak_start = date]
    ELSE IF st.current_streak > 0 THEN [st EXCEPT !.stop = TRUE]
    ELSE st

\* a plausible slip: an idle older day skipped instead of ending the scan
older_day_no_break(st, date, count) ==
    IF Positive(count)
    THEN IF st.current_streak = 0 THEN [st EXCEPT !.stop = TRUE]
         ELSE [st EXCEPT !.current_streak = @ + 1, !.current_streak_start = date]
    ELSE st

\* lines 113-121
older_day(st, date, count) ==
    IF Positive(count)
    THEN IF st.current_streak = 0 THEN [st EXCEPT !.stop = TRUE]
         ELSE [st EXCEPT !.current_streak = @ + 1, !.current_streak_start = date]
    ELSE [st EXCEPT !.stop = TRUE]

\* day["contributionCount"] > 0 raises on a missing key or a non-number
CountRaises(day) ==
    \/ ~CanGetItem(day, "contributionCount")
    \/ ~CanCompareZero(GetItem(day, "contributionCount"))

\* one iteration of the loop of line 98 (lines 99-121)
CurrentStep(st, day, now) ==
    IF ~Parses(GetItem(day, "date")) THEN [st EXCEPT !.exc = TRUE]
    ELSE LET day_date == strptime(GetItem(day, "date"))
         IN  IF in_anchor_window(day_date, now)
             THEN IF CountRaises(day) THEN [st EXCEPT !.exc = TRUE]
                  ELSE anchor_day(st, GetItem(day, "date"), GetItem(day, "contributionCount"))
             ELSE IF day_date < now - 1
             THEN IF CountRaises(day) THEN [st EXCEPT !.exc = TRUE]
                  ELSE older_day(st, GetItem(day, "date"), GetItem(day, "contributionCount"))
             ELSE st

\* for i in range(len(all_days) - 1, -1, -1), until break or exception
RECURSIVE CurrentScan(_, _, _, _)
CurrentScan(st, all_days, i, now) ==
    IF i = 0 \/ st.stop \/ st.exc THEN st
    ELSE CurrentScan(CurrentStep(st, all_days[i], now), all_days, i - 1, now)

(***************************************************************************)
(* calculate_streaks, lines 123-150: the longest streak, scanned forwards  *)
(***************************************************************************)
LongestInit ==
    [longest_streak |-> 0, temp_streak |-> 0, longest_start |-> PyNone,
     longest_end |-> PyNone, temp_start |-> PyNone, prev_date |-> PyNone,
     exc |-> FALSE]

\* a plausible slip: any earlier positive day counts as the day before
follows_any(prev_date, day_date) == TRUE

\* line 135
follows_previous(prev_date, day_date) ==
    prev_date = PyNone \/ day_date - Val(prev_date) = 1

\* lines 134-150, for a day whose date parsed and whose count is a number
longest_day(st, date, day_date, count) ==
    IF Positive(count)
    THEN IF follows_previous(st.prev_date, day_date)
         THEN LET start == IF st.temp_streak = 0 THEN date ELSE st.temp_start
                  temp == st.temp_streak + 1
              IN  IF temp > st.longest_streak
                  THEN [st EXCEPT !.temp_start = start, !.temp_streak = temp,
                                  !.longest_streak = temp, !.longest_start = start,
                                  !.longest_end = date, !.prev_date = PyDate(day_date)]
                  ELSE [st EXCEPT !.temp_start = start, !.temp_streak = temp,
                                  !.prev_date = PyDate(day_date)]
         ELSE [st EXCEPT !.temp_streak = 1, !.temp_start = date,
                         !.prev_date = PyDate(day_date)]
    ELSE IF st.temp_streak > 0
    THEN [st EXCEPT !.temp_streak = 0, !.temp_start = PyNone]
    ELSE st

\* a plausible slip: a day that cannot be read is skipped, not fatal
longest_step_skipping(st, day) ==
    IF ~Parses(GetItem(day, "date")) \/ CountRaises(day) THEN st
    ELSE longest_day(st, GetItem(day, "date"), strptime(GetItem(day, "date")),
                     GetItem(day, "contributionCount"))

\* one iteration of the loop of line 131 (lines 132-150)
LongestStep(st, day) ==
    IF ~Parses(GetItem(day, "date")) \/ CountRaises(day) THEN [st EXCEPT !.exc = TRUE]
    ELSE longest_day(st, GetItem(day, "date"), strptime(GetItem(day, "date")),
                     GetItem(day, "contributionCount"))

RECURSIVE LongestScan(_, _)
LongestScan(st, all_days) ==
    IF all_days = << >> \/ st.exc THEN st
    ELSE LongestScan(LongestStep(st, Head(all_days)), Tail(all_days))

(***************************************************************************)
(* calculate_streaks, lines 78-161                                         *)
(***************************************************************************)
ZeroResult == <<0, 0, PyInt(0), EmptyStr, EmptyStr>>

\* lines 91-158, given the sorted days
Streaks(total, all_days, now) ==
    LET cur == CurrentScan(CurrentInit, all_days, Len(all_days), now)
    IN  IF cur.exc THEN Raised
        ELSE LET lng == LongestScan(LongestInit, all_days)
             IN  IF lng.exc THEN Raised
                 ELSE Returned(<<cur.current_streak, lng.longest_streak, total,
                                 OrElse(cur.current_streak_start, EmptyStr),
                                 OrElse(cur.current_streak_end, EmptyStr)>>)

\* the body of the try block, lines 79-158
TryBody(data, now) ==
    LET found == Subscript(data, CalendarPath)
    IN  IF found.exc THEN Raised
        ELSE LET calendar == found.ret
             IN  IF ~CanGetItem(calendar, "totalContributions") THEN Raised
                 ELSE IF ~CanGetItem(calendar, "weeks") THEN Raised
                 ELSE IF ~CanIterate(GetItem(calendar, "weeks")) THEN Raised
                 ELSE LET flat == Flatten(Elements(GetItem(calendar, "weeks")), << >>)
                      IN  IF flat.exc THEN Raised
                          ELSE IF SortRaises(flat.ret) THEN Raised
                          ELSE Streaks(total_contributions(calendar),
                                       sort_by_date(flat.ret), now)

\* try ... except Exception: return (0, 0, 0, "", "")
calculate_streaks(data, now) ==
    LET body == TryBody(data, now)
    IN  IF body.exc THEN ZeroResult ELSE body.ret

(***************************************************************************)
(* get_stats, lines 163-176; the clock is read at line 95                  *)
(***************************************************************************)
FirstDate == <<2024, 2, 28>>

\* the clock reads from the day before the first date to two days after the last
Todays == (ToOrdinal(FirstDate) - 1) .. (ToOrdinal(FirstDate) + NumDates + 1)

get_stats ==
    /\ pc = "start"
    /\ \E now \in Todays :
         /\ today' = now
         /\ LET r == calculate_streaks(contribution_data, now)
            IN  stats' = [currentStreak |-> r[1], longestStreak |-> r[2],
                          totalContributions |-> r[3], currentStreakStart |-> r[4],
                          currentStreakEnd |-> r[5]]
    /\ pc' = "done"
    /\ UNCHANGED contribution_data

Next == get_stats

(***************************************************************************)
(* The responses of the remote API (lines 25-40 give their shape). The     *)
(* dates are the NumDates days from 2024-02-28 on, which cross a leap day  *)
(* and a month boundary; a count is zero or MaxCount.                      *)
(***************************************************************************)
Window == ToOrdinal(FirstDate) .. (ToOrdinal(FirstDate) + NumDates - 1)
WindowDates ==
    {s \in {<<2024, m, d>> : m \in 2..3, d \in 1..31} :
        Parses(PyStr(s)) /\ ToOrdinal(s) \in Window}
DateString(o) == CHOOSE s \in WindowDates : ToOrdinal(s) = o

Counts == {0, MaxCount}

DayRecord(o, c) ==
    PyDict([date |-> PyStr(DateString(o)), contributionCount |-> PyInt(c)])
Week(days) == PyDict([contributionDays |-> PyList(days)])
Calendar(total, weeks) == PyDict([totalContributions |-> total, weeks |-> weeks])
Response(calendar) ==
    PyDict([data |-> PyDict([user |-> PyDict([contributionsCollection |->
        PyDict([contributionCalendar |-> calendar])])])])

Orders(S) ==
    {p \in [1..Cardinality(S) -> S] : \A i, j \in DOMAIN p : i # j => p[i] # p[j]}

\* every calendar over the window (dates may be missing), in every order
Deliveries ==
    UNION {UNION {{[i \in 1..Cardinality(S) |-> DayRecord(p[i], f[p[i]])] : p \in Orders(S)}
                  : f \in [S -> Counts]}
           : S \in SUBSET Window}

\* ... and as the API delivers them, oldest first
ChronologicalDeliveries ==
    {days \in Deliveries :
        \A i \in 1..(Len(days) - 1) :
            strptime(GetItem(days[i], "date")) < strptime(GetItem(days[i + 1], "date"))}

\* the days cut into two weeks at s
TwoWeeks(days, s) ==
    <<Week(SubSeq(days, 1, s)), Week(SubSeq(days, s + 1, Len(days)))>>
\* ... in halves
Halves(days) == PyList(TwoWeeks(days, (Len(days) + 1) \div 2))

\* the declared total is the sum of the counts, or off by one
Totals(days) == {PyInt(SumCounts(days)), PyInt(SumCounts(days) + 1)}

InitWellFormed ==
    /\ \E days \in Deliveries :
         \E total \in Totals(days) :
            contribution_data = Response(Calendar(total, Halves(days)))
    /\ today = PyNone
    /\ pc = "start"
    /\ stats = PyNone

Spec == InitWellFormed /\ [][Next]_vars

(***************************************************************************)
(* Responses that deviate from the shape in one place: a key missing, a    *)
(* date that is no date, or a value of the wrong type. The days are        *)
(* delivered oldest first.                                                 *)
(***************************************************************************)
SomeText == PyStr(<<0>>)
UnparseableDates == {PyStr(<<2024, 2, 30>>), PyStr(<<2024, 13, 1>>), EmptyStr}

DayMissingKey(day) ==
    {PyDict([contributionCount |-> GetItem(day, "contributionCount")]),
     PyDict([date |-> GetItem(day, "date")])}
DayBadDate(day) ==
    {PyDict([date |-> d, contributionCount |-> GetItem(day, "contributionCount")])
        : d \in UnparseableDates}
DayWrongType(day) ==
    {PyDict([date |-> d, contributionCount |-> GetItem(day, "contributionCount")])
        : d \in {PyNone, PyInt(20240228)}}
    \cup {PyDict([date |-> GetItem(day, "date"), contributionCount |-> c])
        : c \in {SomeText, PyNone, PyFloat(3)}}

\* the day lists with exactly one day replaced
OneDayReplaced(days, Variants(_)) ==
    UNION {{[days EXCEPT ![j] = v] : v \in Variants(days[j])} : j \in 1..Len(days)}

\* the weeks with exactly one week replaced
OneWeekReplaced(days, variants) ==
    UNION {{PyList([TwoWeeks(days, (Len(days) + 1) \div 2) EXCEPT ![w] = v]) : v \in variants}
           : w \in 1..2}

WeekWrongType ==
    {PyNone} \cup {PyDict([contributionDays |-> v])
                      : v \in {PyNone, EmptyStr, EmptyDict, SomeText}}

RECURSIVE Nest(_, _)
Nest(keys, leaf) ==
    IF keys = << >> THEN leaf
    ELSE PyDict([k \in {Head(keys)} |-> Nest(Tail(keys), leaf)])

MissingKeyResponses(days, total) ==
    {Nest(SubSeq(CalendarPath, 1, n), EmptyDict) : n \in 0..3}
    \cup {Response(PyDict([weeks |-> Halves(days)])),
          Response(PyDict([totalContributions |-> total]))}
    \cup {Response(Calendar(total, weeks)) : weeks \in OneWeekReplaced(days, {EmptyDict})}
    \cup {Response(Calendar(total, Halves(broken)))
             : broken \in OneDayReplaced(days, DayMissingKey)}

BadDateResponses(days, total) ==
    {Response(Calendar(total, Halves(broken))) : broken \in OneDayReplaced(days, DayBadDate)}

WrongTypeResponses(days, total) ==
    {Nest(SubSeq(CalendarPath, 1, n), PyNone) : n \in 1..4}
    \cup {Response(Calendar(t, Halves(days))) : t \in {SomeText, PyNone, PyFloat(3)}}
    \cup {Response(Calendar(total, w)) : w \in {PyNone, EmptyStr, EmptyDict, PyInt(0), SomeText}}
    \cup {Response(Calendar(total, weeks)) : weeks \in OneWeekReplaced(days, WeekWrongType)}
    \cup {Response(Calendar(total, Halves(broken)))
             : broken \in OneDayReplaced(days, DayWrongType)}

InitMalformed ==
    /\ \E days \in ChronologicalDeliveries :
         \E total \in Totals(days) :
            contribution_data \in
                {Response(Calendar(total, Halves(days)))}
                \cup MissingKeyResponses(days, total)
                \cup BadDateResponses(days, total)
                \cup WrongTypeResponses(days, total)
    /\ today = PyNone
    /\ pc = "start"
    /\ stats = PyNone

SpecMalformed == InitMalformed /\ [][Next]_vars

(***************************************************************************)
(* What a well-formed response holds, read off the response itself         *)
(***************************************************************************)
Range(f) == {f[i] : i \in DOMAIN f}

DeclaredCalendar ==
    contribution_data.dict.data.dict.user.dict.contributionsCollection.dict.contributionCalendar
DeclaredTotal == DeclaredCalendar.dict.totalContributions
DeliveredWeeks == DeclaredCalendar.dict.weeks.list
\* the day records in delivery order, and as a set
DeliveredDays ==
    DeliveredWeeks[1].dict.contributionDays.list \o DeliveredWeeks[2].dict.contributionDays.list
Delivered == Range(DeliveredDays)

DateOf(day) == ToOrdinal(day.dict.date.str)
CountOf(day) == day.dict.contributionCount.int

PresentOn(o) == \E day \in Delivered : DateOf(day) = o
PositiveOn(o) == \E day \in Delivered : DateOf(day) = o /\ CountOf(day) > 0
IdleOn(o) == \E day \in Delivered : DateOf(day) = o /\ CountOf(day) = 0

\* the number of calendar-consecutive positive dates o, o-1, o-2, ...
RECURSIVE RunEndingAt(_)
RunEndingAt(o) == IF PositiveOn(o) THEN 1 + RunEndingAt(o - 1) ELSE 0

\* the same, among the dates after today only
RECURSIVE FutureRunEndingAt(_)
FutureRunEndingAt(o) ==
    IF o > today /\ PositiveOn(o) THEN 1 + FutureRunEndingAt(o - 1) ELSE 0

Largest(S) == IF S = {} THEN 0 ELSE CHOOSE n \in S : \A m \in S : m <= n

\* a valid calendar: its dates cover a contiguous range of days
ValidCalendar ==
    \A a, b \in Window :
        PresentOn(a) /\ PresentOn(b) => \A o \in a..b : PresentOn(o)

DeliveredInOrder ==
    \A i \in 1..(Len(DeliveredDays) - 1) : DateOf(DeliveredDays[i]) < DateOf(DeliveredDays[i + 1])

StatsOf(r) ==
    [currentStreak |-> r[1], longestStreak |-> r[2], totalContributions |-> r[3],
     currentStreakStart |-> r[4], currentStreakEnd |-> r[5]]

(***************************************************************************)
(* What any response holds, read off with guards                           *)
(***************************************************************************)
MissingKey(obj, key) == TypeOf(obj) = "dict" /\ key \notin DOMAIN Val(obj)

\* the value n keys down the path, when the path leads that far
Reach(n) == Subscript(contribution_data, SubSeq(CalendarPath, 1, n))

HasCalendar == ~Reach(4).exc /\ TypeOf(Reach(4).ret) = "dict"
TheCalendar == Reach(4).ret
HasWeekList ==
    HasCalendar /\ CanGetItem(TheCalendar, "weeks") /\ TypeOf(GetItem(TheCalendar, "weeks")) = "list"
TheWeeks == Val(GetItem(TheCalendar, "weeks"))
\* the elements of every contributionDays that is a list
TheDays ==
    UNION {Range(Val(GetItem(TheWeeks[w], "contributionDays"))) :
              w \in {v \in DOMAIN TheWeeks :
                        /\ CanGetItem(TheWeeks[v], "contributionDays")
                        /\ TypeOf(GetItem(TheWeeks[v], "contributionDays")) = "list"}}
\* the day records with a date that parses and an integer count
ReadableDays ==
    {day \in TheDays :
        /\ CanGetItem(day, "date") /\ Parses(GetItem(day, "date"))
        /\ CanGetItem(day, "contributionCount")
        /\ TypeOf(GetItem(day, "contributionCount")) = "int"}

PathKeyMissing ==
    \E n \in 0..3 : ~Reach(n).exc /\ MissingKey(Reach(n).ret, CalendarPath[n + 1])
CalendarKeyMissing ==
    HasCalendar /\ (MissingKey(TheCalendar, "totalContributions") \/ MissingKey(TheCalendar, "weeks"))
WeekKeyMissing ==
    HasWeekList /\ \E w \in DOMAIN TheWeeks : MissingKey(TheWeeks[w], "contributionDays")
DayKeyMissing ==
    HasWeekList /\ \E day \in TheDays :
        MissingKey(day, "date") \/ MissingKey(day, "contributionCount")
DateUnparseable ==
    HasWeekList /\ \E day \in TheDays :
        /\ CanGetItem(day, "date")
        /\ TypeOf(GetItem(day, "date")) = "str"
        /\ ~Parses(GetItem(day, "date"))

StructuralFailure ==
    PathKeyMissing \/ CalendarKeyMissing \/ WeekKeyMissing \/ DayKeyMissing \/ DateUnparseable

TotalWrongType ==
    /\ HasCalendar /\ CanGetItem(TheCalendar, "totalContributions")
    /\ TypeOf(GetItem(TheCalendar, "totalContributions")) # "int"
WeeksWrongType ==
    /\ HasCalendar /\ CanGetItem(TheCalendar, "weeks")
    /\ \/ TypeOf(GetItem(TheCalendar, "weeks")) # "list"
       \/ \E w \in DOMAIN TheWeeks : TypeOf(TheWeeks[w]) # "dict"
DaysWrongType ==
    HasWeekList /\ \E w \in DOMAIN TheWeeks :
        /\ CanGetItem(TheWeeks[w], "contributionDays")
        /\ \/ TypeOf(GetItem(TheWeeks[w], "contributionDays")) # "list"
           \/ \E day \in Range(Val(GetItem(TheWeeks[w], "contributionDays"))) : TypeOf(day) # "dict"
CountWrongType ==
    HasWeekList /\ \E day \in TheDays :
        CanGetItem(day, "contributionCount") /\ TypeOf(GetItem(day, "contributionCount")) # "int"
DateWrongType ==
    HasWeekList /\ \E day \in TheDays :
        CanGetItem(day, "date") /\ TypeOf(GetItem(day, "date")) # "str"

WrongType ==
    /\ ~StructuralFailure
    /\ TotalWrongType \/ WeeksWrongType \/ DaysWrongType \/ CountWrongType \/ DateWrongType

ZeroStats ==
    [currentStreak |-> 0, longestStreak |-> 0, totalContributions |-> PyInt(0),
     currentStreakStart |-> EmptyStr, currentStreakEnd |-> EmptyStr]

(***************************************************************************)
(* Claims                                                                  *)
(***************************************************************************)

\* C1: for every valid calendar (one record per date, the dates a contiguous
\* range, delivered in any order) and every today, longestStreak >= currentStreak.
C1_LongestAtLeastCurrent ==
    pc = "done" /\ ValidCalendar => stats.longestStreak >= stats.currentStreak

C1_Witness ==
    /\ pc = "done" /\ ValidCalendar /\ ~DeliveredInOrder
    /\ stats.currentStreak >= 1 /\ stats.longestStreak > stats.currentStreak

\* C5: the returned totalContributions is the declared total, unchanged, also
\* when it differs from the sum of the counts and when there are no days.
C5_TotalPassedThrough ==
    pc = "done" => stats.totalContributions = DeclaredTotal

C5_Witness ==
    /\ pc = "done" /\ Delivered = {}
    /\ DeclaredTotal = PyInt(1) /\ stats.totalContributions = PyInt(1)

\* C6: the five-field result is the same for every order of the days within
\* and across the weeks: it equals the result for the same days delivered
\* oldest first in a single week.
C6_OrderIndependent ==
    pc = "done" =>
        LET chrono == [i \in 1..Cardinality(Delivered) |->
                          CHOOSE day \in Delivered :
                              Cardinality({e \in Delivered : DateOf(e) < DateOf(day)}) = i - 1]
        IN  stats = StatsOf(calculate_streaks(
                        Response(Calendar(DeclaredTotal, PyList(<<Week(chrono)>>))), today))

C6_Witness ==
    /\ pc = "done" /\ ~DeliveredInOrder /\ Len(DeliveredWeeks[1].dict.contributionDays.list) > 0
    /\ stats.currentStreak >= 2 /\ stats.longestStreak > stats.currentStreak

\* C7: currentStreak is the number of calendar-consecutive dates d, d-1, ...
\* all present with count > 0, d being today if today is positive and
\* yesterday otherwise; a missing date breaks the run as a zero count does.
C7_CurrentStreakIsRun ==
    pc = "done" =>
        stats.currentStreak = RunEndingAt(IF PositiveOn(today) THEN today ELSE today - 1)

\* C8: longestStreak is the size of the largest set of calendar-consecutive
\* dates all present with count > 0 (0 when no day is positive).
C8_LongestStreakIsLongestRun ==
    pc = "done" => stats.longestStreak = Largest({RunEndingAt(o) : o \in Window})

C8_Witness ==
    /\ pc = "done" /\ ~DeliveredInOrder /\ ~ValidCalendar
    /\ \E o \in Window : IdleOn(o) /\ PositiveOn(o + 1)
    /\ stats.longestStreak = 1

\* C9: currentStreak > 0 exactly when today or yesterday is present with
\* count > 0; then currentStreakEnd is the newest such day and
\* currentStreakStart <= currentStreakEnd. Without such a day both dates are
\* empty, and a positive today after an idle yesterday gives 1.
C9_AnchoredInWindow ==
    pc = "done" =>
        /\ stats.currentStreak > 0 <=> (PositiveOn(today) \/ PositiveOn(today - 1))
        /\ stats.currentStreak > 0 =>
              /\ stats.currentStreakEnd =
                    PyStr(DateString(IF PositiveOn(today) THEN today ELSE today - 1))
              /\ strptime(stats.currentStreakStart) <= strptime(stats.currentStreakEnd)
        /\ stats.currentStreak = 0 =>
              stats.currentStreakStart = EmptyStr /\ stats.currentStreakEnd = EmptyStr
        /\ PositiveOn(today) /\ IdleOn(today - 1) => stats.currentStreak = 1

C9_Witness ==
    /\ pc = "done" /\ IdleOn(today) /\ PositiveOn(today - 1) /\ PositiveOn(today - 2)
    /\ stats.currentStreak = 2
    /\ stats.currentStreakEnd = PyStr(DateString(today - 1))

\* C10: currentStreak and its two dates are those of the calendar without the
\* days dated after today, while longestStreak counts the runs of those days.
C10_FutureDaysIgnored ==
    pc = "done" =>
        LET past == SelectSeq(DeliveredDays, LAMBDA day : DateOf(day) <= today)
            r == calculate_streaks(
                     Response(Calendar(DeclaredTotal, PyList(<<Week(past)>>))), today)
        IN  /\ stats.currentStreak = r[1]
            /\ stats.currentStreakStart = r[4]
            /\ stats.currentStreakEnd = r[5]
            /\ stats.longestStreak >= Largest({FutureRunEndingAt(o) : o \in Window})

C10_Witness ==
    /\ pc = "done" /\ PositiveOn(today) /\ PositiveOn(today + 1) /\ PositiveOn(today + 2)
    /\ stats.currentStreak = 1 /\ stats.longestStreak = 3



\* C2: for every input, well-formed or not, currentStreak = 0 exactly when
\* currentStreakStart and currentStreakEnd are both empty, and when
\* currentStreak > 0 both are dates.
C2_EmptyDatesIffNoStreak ==
    pc = "done" =>
        /\ stats.currentStreak = 0 <=>
              (stats.currentStreakStart = EmptyStr /\ stats.currentStreakEnd = EmptyStr)
        /\ stats.currentStreak > 0 =>
              Parses(stats.currentStreakStart) /\ Parses(stats.currentStreakEnd)

C2_Witness ==
    /\ pc = "done" /\ CountWrongType
    /\ stats.currentStreak = 2
    /\ stats.currentStreakStart # stats.currentStreakEnd
    /\ Parses(stats.currentStreakStart)

\* C3: a missing key anywhere on the way to a day's date or count, or a date
\* that does not parse, on any single day at any position, gives the
\* zero-value record, whatever the other days and the declared total are.
C3_StructuralFailureGivesZero ==
    pc = "done" /\ StructuralFailure => stats = ZeroStats

\* the bad day lies behind the idle day at which the backward scan stops
C3_Witness ==
    /\ pc = "done" /\ DateUnparseable /\ stats = ZeroStats
    /\ Val(GetItem(TheCalendar, "totalContributions")) > 0
    /\ \E a, b, c \in TheDays :
          /\ a \in ReadableDays /\ b \in ReadableDays
          /\ strptime(GetItem(a, "date")) = today
          /\ Val(GetItem(a, "contributionCount")) > 0
          /\ strptime(GetItem(b, "date")) = today - 1
          /\ Val(GetItem(b, "contributionCount")) = 0
          /\ GetItem(c, "date") = PyStr(<<2024, 2, 30>>)

\* C4: a field of the wrong type in an otherwise complete input gives the
\* zero-value record.
C4_WrongTypeGivesZero ==
    pc = "done" /\ WrongType => stats = ZeroStats

====
